---------------------------- MODULE Spec2Model ----------------------------
(***************************************************************************)
(* A model of price-picker.py (class PriceScraper): the text normalisers   *)
(* clean_price and extract_number, the aggregator client scrape_skroutz,   *)
(* the dispatcher search and the per-identifier reconciliation loop of     *)
(* process_csv.                                                            *)
(*                                                                         *)
(* Representation of Python values:                                        *)
(*   - a str is a sequence of one-character strings;                       *)
(*   - a float is a normalised decimal [m, e] standing for m / 10^e (m not *)
(*     divisible by 10 unless e = 0), which is exact for the short price   *)
(*     texts met here;                                                     *)
(*   - None is the record None; the empty cell "" written to the result    *)
(*     table is EmptyCell; an int cell is [int |-> n].                     *)
(***************************************************************************)
EXTENDS Integers, Sequences, FiniteSets, TLC

(***************************************************************************)
(* Bounds of the exploration.                                              *)
(***************************************************************************)
\* rows (identifiers) read from the input file in one run
MaxRows == 2
\* URL entries read in one run, over all its rows
MaxUrls == 3
\* product cards of one aggregator payload
MaxCards == 3
\* URL entries of one run of the session-rotation scenario
MaxRotUrls == 25
\* characters of the text of a page's price element
MaxTextLen == 5

(***************************************************************************)
(* Python values.                                                          *)
(***************************************************************************)
None == [none |-> TRUE]

\* a str where other values occur too
Str(text) == [str |-> text]

EmptyCell == Str(<<>>)

IntCell(n) == [int |-> n]

RECURSIVE Pow10(_)
Pow10(k) == IF k = 0 THEN 1 ELSE 10 * Pow10(k - 1)

RECURSIVE Normalise(_, _)
Normalise(m, e) ==
    IF e > 0 /\ m % 10 = 0 THEN Normalise(m \div 10, e - 1) ELSE [m |-> m, e |-> e]

\* the float m / 10^e
Float(m, e) == Normalise(m, e)

\* a < b on floats
FloatLt(a, b) ==
    IF a.e <= b.e THEN a.m * Pow10(b.e - a.e) < b.m
    ELSE a.m < b.m * Pow10(a.e - b.e)

FloatZero == Float(0, 0)

(***************************************************************************)
(* Characters.                                                             *)
(***************************************************************************)
Digits == {"0", "1", "2", "3", "4", "5", "6", "7", "8", "9"}

\* str.isdigit() on the characters of the alphabet
IsDigit(c) == c \in Digits

DigitVal(c) ==
    CASE c = "0" -> 0 [] c = "1" -> 1 [] c = "2" -> 2 [] c = "3" -> 3
      [] c = "4" -> 4 [] c = "5" -> 5 [] c = "6" -> 6 [] c = "7" -> 7
      [] c = "8" -> 8 [] c = "9" -> 9

DigitChar(d) == <<"0", "1", "2", "3", "4", "5", "6", "7", "8", "9">>[d + 1]

\* s.replace(c, '') for a one-character c
RemoveChar(s, c) == SelectSeq(s, LAMBDA x : x # c)

\* s.replace(a, b) for one-character a and b
ReplaceChar(s, a, b) == [i \in 1..Len(s) |-> IF s[i] = a THEN b ELSE s[i]]

\* the number of occurrences of c in s
CountChar(s, c) == Cardinality({i \in 1..Len(s) : s[i] = c})

\* the value of a string of decimal digits ('' counts 0)
RECURSIVE DigitsVal(_)
DigitsVal(s) ==
    IF s = <<>> THEN 0
    ELSE 10 * DigitsVal(SubSeq(s, 1, Len(s) - 1)) + DigitVal(s[Len(s)])

\* the decimal digits of n >= 0, without leading zeros ("0" for 0)
RECURSIVE NatDigits(_)
NatDigits(n) ==
    IF n < 10 THEN <<DigitChar(n)>>
    ELSE Append(NatDigits(n \div 10), DigitChar(n % 10))

\* s left-padded with "0" to k characters
RECURSIVE PadZeros(_, _)
PadZeros(s, k) == IF Len(s) >= k THEN s ELSE PadZeros(<<"0">> \o s, k)

(***************************************************************************)
(* float(text) for a text over digits, '.', and other characters: float   *)
(* strips the whitespace at both ends of the text, and what is left parses *)
(* iff it is digits with at most one '.', and at least one digit.  (Signs, *)
(* exponents, underscores, inf and nan are outside the alphabet of the     *)
(* model.)                                                                 *)
(***************************************************************************)
\* the whitespace of the model's alphabet: blank, tab, line feed, carriage
\* return, form feed, vertical tab, no-break space
Whitespace == {" ", "\t", "\n", "\r", "\f", "", " "}

IsSpace(c) == c \in Whitespace

\* the text without the whitespace at its ends
RECURSIVE PyStrip(_)
PyStrip(s) ==
    IF s = <<>> THEN s
    ELSE IF IsSpace(Head(s)) THEN PyStrip(Tail(s))
    ELSE IF IsSpace(s[Len(s)]) THEN PyStrip(SubSeq(s, 1, Len(s) - 1))
    ELSE s

FloatParses(s) ==
    LET t == PyStrip(s)
    IN  /\ \A i \in 1..Len(t) : IsDigit(t[i]) \/ t[i] = "."
        /\ CountChar(t, ".") <= 1
        /\ \E i \in 1..Len(t) : IsDigit(t[i])

PyFloat(s) ==
    LET t    == PyStrip(s)
        dot  == IF \E i \in 1..Len(t) : t[i] = "."
                THEN CHOOSE i \in 1..Len(t) : t[i] = "."
                ELSE Len(t) + 1
        ip   == SubSeq(t, 1, dot - 1)
        fp   == SubSeq(t, dot + 1, Len(t))
    IN  Float(DigitsVal(ip \o fp), Len(fp))

\* str(x) of a float x >= 0 (repr in positional notation: "10.0", "12.5")
PyStrFloat(x) ==
    LET ip == x.m \div Pow10(x.e)
        fp == x.m % Pow10(x.e)
    IN  NatDigits(ip) \o <<".">> \o
        (IF x.e = 0 THEN <<"0">> ELSE PadZeros(NatDigits(fp), x.e))

(***************************************************************************)
(* PriceScraper.clean_price                                                *)
(***************************************************************************)
\* clean_price without line 47, the replacement of ',' by '.'
clean_price_keeps_comma(price_str) ==
    IF price_str = <<>> THEN None
    ELSE LET a == RemoveChar(price_str, "€")
             b == RemoveChar(a, " ")
             cleaned == RemoveChar(RemoveChar(b, "\n"), "\t")
         IN  IF FloatParses(cleaned) THEN PyFloat(cleaned) ELSE None

clean_price(price_str) ==
    IF price_str = <<>> THEN None
    ELSE LET a == RemoveChar(price_str, "€")
             b == RemoveChar(a, " ")
             c == RemoveChar(RemoveChar(b, "\n"), "\t")
             cleaned == ReplaceChar(c, ",", ".")
         IN  IF FloatParses(cleaned) THEN PyFloat(cleaned) ELSE None

(***************************************************************************)
(* PriceScraper.extract_number                                             *)
(***************************************************************************)
RECURSIVE extract_scan(_, _, _)
extract_scan(text, number, decimal_found) ==
    IF text = <<>> THEN number
    ELSE LET char == Head(text)
             rest == Tail(text)
         IN  IF IsDigit(char) \/ char = ","
             THEN IF char = ","
                  THEN IF ~decimal_found
                       THEN extract_scan(rest, Append(number, ","), TRUE)
                       ELSE extract_scan(rest, number, decimal_found)
                  ELSE extract_scan(rest, Append(number, char), decimal_found)
             ELSE IF char = "." /\ ~decimal_found
                  THEN extract_scan(rest, Append(number, ","), TRUE)
                  ELSE extract_scan(rest, number, decimal_found)

\* extract_number emitting the separator as '.'
extract_number_emits_point(text) ==
    ReplaceChar(extract_scan(text, <<>>, FALSE), ",", ".")

extract_number(text) == extract_scan(text, <<>>, FALSE)


(***************************************************************************)
(* URLs.  A URL is known to the program only through substring tests       *)
(* ('http' in url, 'skroutz' in url, ...) and url.split("/s/"); UrlHas     *)
(* lists, for each URL of the model, the tested patterns it contains.      *)
(***************************************************************************)
UrlHas ==
    [u \in {"https://glutenfreeyourself.gr/p/1", "https://www.sklavenitis.gr/p/2",
            "https://www.skroutz.gr/s/123/p.html", "https://www.e-fresh.gr/p/4",
            "https://example.com/p/5", "n/a", "https://www.skroutz.gr/c/55",
            "https://deals.example.com/skroutz"} |->
        CASE u = "https://glutenfreeyourself.gr/p/1" -> {"http", "glutenfreeyourself.gr"}
          [] u = "https://www.sklavenitis.gr/p/2" -> {"http", "sklavenitis.gr"}
          [] u = "https://www.skroutz.gr/s/123/p.html" -> {"http", "skroutz", "skroutz.gr", "/s/"}
          [] u = "https://www.e-fresh.gr/p/4" -> {"http", "e-fresh", "e-fresh.gr"}
          [] u = "https://example.com/p/5" -> {"http"}
          [] u = "n/a" -> {}
          [] u = "https://www.skroutz.gr/c/55" -> {"http", "skroutz", "skroutz.gr"}
          [] u = "https://deals.example.com/skroutz" -> {"http", "skroutz"}]

\* pat in url
Contains(u, pat) == pat \in UrlHas[u]

(***************************************************************************)
(* Quotes: the 4-tuple (price_str, site_name, store_count, skroutz_price)  *)
(* every scrape_* method returns.  price and skroutz_price are texts; the  *)
(* int 0 some adapters return as skroutz_price is written <<>>: clean_price*)
(* answers None for both ('if not price_str').                             *)
(***************************************************************************)
Quote(p, s, n, k) == [price |-> p, site |-> s, store_count |-> n, skroutz_price |-> k]

(***************************************************************************)
(* The static-page adapters, in the order search tests their domains.      *)
(* tag: site_name on success; oos: site_name when the out-of-stock marker  *)
(* is read ("" when the adapter reads none); fail / failPrice: the tuple   *)
(* of the except branch; extract: the adapter passes the text through      *)
(* extract_number.                                                         *)
(***************************************************************************)
Adapter(pat, tag, oos, fail, failPrice, extract) ==
    [pat |-> pat, tag |-> tag, oos |-> oos, fail |-> fail,
     failPrice |-> failPrice, extract |-> extract]

scrape_glutenfreeyourself ==
    Adapter("glutenfreeyourself.gr", "glutenfreeyourself.gr",
            "eksantlimeno-glutenfreeyourself.gr",
            "classnotfound-glutenfreeyourself.gr", <<>>, FALSE)

scrape_glutenfreeonline ==
    Adapter("glutenfreeonline.gr", "glutenfreeonline.gr",
            "eksantlimeno-GlutenFreeOnline.gr", "classnotfound", <<>>, FALSE)

scrape_thanopoulos ==
    Adapter("thanopoulos.gr", "thanopoulos.gr", "",
            "classnotfound-thanopoulos.gr", <<>>, FALSE)

scrape_sklavenitis ==
    Adapter("sklavenitis.gr", "sklavenitis.gr", "",
            "classnotfound-sklavenitis.gr", <<"1", "0", "0", "0">>, TRUE)

scrape_biohealthyfood ==
    Adapter("biohealthyfood.gr", "biohealthyfood.gr",
            "eksantlimeno-biohealthyfood.gr",
            "classnotfound-biohealthyfood.gr", <<>>, FALSE)

scrape_celiacshop ==
    Adapter("celiacshop.gr", "celiacshop.gr", "",
            "classnotfound-celiacshop.gr", <<>>, FALSE)

scrape_eblokomarket ==
    Adapter("eblokomarket.gr", "eblokomarket.gr", "",
            "classnotfound-eblokomarket.gr", <<>>, FALSE)

scrape_mymarket ==
    Adapter("mymarket.gr", "mymarket.gr", "",
            "classnotfound-mymarket.gr", <<>>, FALSE)

scrape_bio2go ==
    Adapter("bio2go.gr", "bio2go.gr", "", "classnotfound-bio2go.gr", <<>>, FALSE)

scrape_wefit ==
    Adapter("wefit.gr", "wefit.gr", "", "classnotfound-wefit.gr", <<>>, FALSE)

scrape_2pharmacy ==
    Adapter("2pharmacy.gr", "2pharmacy.gr", "",
            "classnotfound-2pharmacy.gr", <<>>, FALSE)

scrape_greenhousebio ==
    Adapter("greenhousebio.gr", "greenhousebio.gr", "",
            "classnotfound-greenhousebio.gr", <<>>, FALSE)

StaticAdapters ==
    << scrape_glutenfreeyourself, scrape_glutenfreeonline, scrape_thanopoulos,
       scrape_sklavenitis, scrape_biohealthyfood, scrape_celiacshop,
       scrape_eblokomarket, scrape_mymarket, scrape_bio2go, scrape_wefit,
       scrape_2pharmacy, scrape_greenhousebio >>

(***************************************************************************)
(* A fetched page as an adapter sees it: found (every element the adapter  *)
(* looks up exists), oos (the stock marker reads out of stock), text (the  *)
(* stripped text of the price element the adapter selects).                *)
(***************************************************************************)
Page(found, oos, text) == [found |-> found, oos |-> oos, text |-> text]

\* the except branch of a static adapter
scrape_failed(a) == Quote(a.failPrice, a.fail, 0, <<>>)

\* a static adapter a applied to the page it was given
scrape_static(a, page) ==
    IF ~page.found THEN scrape_failed(a)
    ELSE IF a.oos # "" /\ page.oos THEN Quote(<<>>, a.oos, 0, <<>>)
    ELSE Quote(IF a.extract THEN extract_number(page.text) ELSE page.text,
               a.tag, 0, <<>>)

\* the if/elif chain of search over the fetched soup: the first adapter whose
\* domain the URL contains, or site-NA
RECURSIVE dispatch_static(_, _, _)
dispatch_static(u, page, i) ==
    IF i > Len(StaticAdapters) THEN Quote(<<>>, "site-NA", 0, <<>>)
    ELSE IF Contains(u, StaticAdapters[i].pat)
         THEN scrape_static(StaticAdapters[i], page)
         ELSE dispatch_static(u, page, i + 1)

\* search, from scrape_via_requests on: soup is None (the fetch raised a
\* RequestException) or the page
search_static(u, fetched) ==
    IF fetched = None THEN Quote(<<>>, "Error", 0, <<>>)
    ELSE dispatch_static(u, fetched, 1)

(***************************************************************************)
(* PriceScraper.scrape_efresh on what the rendering session shows: render  *)
(* is "raise" (a driver call raised), "404" (the error-404 element is on   *)
(* the page) or "page" with the text of the selected price element's line. *)
(***************************************************************************)
Render(kind, text) == [kind |-> kind, text |-> text]

scrape_efresh(render) ==
    IF render.kind = "page" THEN Quote(render.text, "e-fresh.gr", 0, <<>>)
    ELSE Quote(<<>>, "classnotfound-e-fresh.gr", 0, <<>>)

\* whether scrape_efresh reached the two storage-clearing scripts
efresh_clears(render) == render.kind = "page"

\* the storage scrape_efresh can leave the session with, from storage st: a
\* driver call raised either in driver.get, before the page was loaded (st
\* is kept), or after it, before both clearing scripts ran (the page's
\* storage is left)
efresh_storage(render, st) ==
    IF render.kind = "raise" THEN {st, "dirty"}
    ELSE IF efresh_clears(render) THEN {"clean"} ELSE {"dirty"}

(***************************************************************************)
(* PriceScraper.scrape_skroutz: the payload of a 200 response.             *)
(***************************************************************************)
our_shop_id == 13618

Card(shop_id, raw_price) == [shop_id |-> shop_id, raw_price |-> raw_price]

\* prices.sort(key=lambda x: x[0]): a stable sort, by insertion
RECURSIVE InsertByPrice(_, _)
InsertByPrice(sorted, c) ==
    IF sorted = <<>> THEN <<c>>
    ELSE IF FloatLt(c.raw_price, sorted[Len(sorted)].raw_price)
         THEN Append(InsertByPrice(SubSeq(sorted, 1, Len(sorted) - 1), c),
                     sorted[Len(sorted)])
         ELSE Append(sorted, c)

RECURSIVE SortByPrice(_)
SortByPrice(cards) ==
    IF cards = <<>> THEN <<>>
    ELSE InsertByPrice(SortByPrice(SubSeq(cards, 1, Len(cards) - 1)),
                       cards[Len(cards)])

\* reference_price without the own-shop test: always the lowest price
reference_price_ignores_own(cards) ==
    LET prices == SortByPrice(cards)
    IN  IF prices # <<>> THEN prices[1].raw_price ELSE None

\* price_value (= skroutzprice) of lines 286-300, None when absent
reference_price(cards) ==
    LET prices == SortByPrice(cards)
    IN  IF prices # <<>> /\ prices[1].shop_id = our_shop_id
        THEN IF Len(prices) > 1 THEN prices[2].raw_price ELSE None
        ELSE IF prices # <<>> THEN prices[1].raw_price ELSE None

\* the tuple returned at lines 302-306
skroutz_success(shop_count, cards) ==
    LET price_value == reference_price(cards)
        text == IF price_value # None THEN PyStrFloat(price_value) ELSE <<>>
    IN  Quote(text, "skroutz", shop_count, text)

\* the tuple returned at line 316, after the loop
skroutz_exhausted == Quote(<<>>, "classnotfound-skroutz.gr", 0, <<>>)

\* the tuple returned at line 231
skroutz_invalid_url == Quote(<<>>, "Invalid URL", 0, <<>>)

(***************************************************************************)
(* A response of the aggregator.  kind "raise": curlr.get raised           *)
(* RequestsError; kind "http": a response with a status code.  retry_after *)
(* is the Retry-After header (Str(text), None when absent).  json is FALSE when       *)
(* response.json() or the reading of the payload raises.                   *)
(***************************************************************************)
Response(kind, status, retry_after, json, shop_count, cards) ==
    [kind |-> kind, status |-> status, retry_after |-> retry_after,
     json |-> json, shop_count |-> shop_count, cards |-> cards]

NoResponse == Response("none", 0, None, FALSE, 0, <<>>)

Raised == Response("raise", 0, None, FALSE, 0, <<>>)

Http(status, retry_after) == Response("http", status, retry_after, FALSE, 0, <<>>)

Malformed == Response("http", 200, None, FALSE, 0, <<>>)

Payload(shop_count, cards) == Response("http", 200, None, TRUE, shop_count, cards)

\* int(text) succeeds
IntParses(s) == s # <<>> /\ \A i \in 1..Len(s) : IsDigit(s[i])

\* the response lets the attempt return (lines 270-306 run through)
Succeeds(r) == r.kind = "http" /\ r.status = 200 /\ r.json

\* five seconds after every failed attempt, whatever failed
attempt_sleep_flat(r) == 5

\* the seconds handed to time.sleep by one failed attempt (0: no sleep)
attempt_sleep(r) ==
    IF r.kind = "raise" THEN 5
    ELSE IF r.status = 403 THEN 5
    ELSE IF r.status = 429
         THEN IF r.retry_after = None THEN 5
              ELSE IF IntParses(r.retry_after.str) THEN DigitsVal(r.retry_after.str)
              ELSE 5
    ELSE IF r.status # 200 THEN 0
    ELSE 5

(***************************************************************************)
(* Python's min, list.index and max on the lists of process_csv.           *)
(***************************************************************************)
\* min(xs) of a non-empty list of floats: the first smallest element
RECURSIVE PyMin(_)
PyMin(xs) ==
    IF Len(xs) = 1 THEN xs[1]
    ELSE LET m == PyMin(SubSeq(xs, 1, Len(xs) - 1))
         IN  IF FloatLt(xs[Len(xs)], m) THEN xs[Len(xs)] ELSE m

\* max(xs) of a non-empty list of floats
RECURSIVE PyMaxFloat(_)
PyMaxFloat(xs) ==
    IF Len(xs) = 1 THEN xs[1]
    ELSE LET m == PyMaxFloat(SubSeq(xs, 1, Len(xs) - 1))
         IN  IF FloatLt(m, xs[Len(xs)]) THEN xs[Len(xs)] ELSE m

\* max(xs) of a non-empty list of ints
RECURSIVE PyMaxInt(_)
PyMaxInt(xs) ==
    IF Len(xs) = 1 THEN xs[1]
    ELSE LET m == PyMaxInt(SubSeq(xs, 1, Len(xs) - 1))
         IN  IF m < xs[Len(xs)] THEN xs[Len(xs)] ELSE m

\* xs.index(v), counted from 1: the place of the first element equal to v
PyIndex(xs, v) == CHOOSE i \in 1..Len(xs) : xs[i] = v /\ \A j \in 1..(i - 1) : xs[j] # v

(***************************************************************************)
(* The state of a run of process_csv.                                      *)
(***************************************************************************)
VARIABLES
    pc,             \* where process_csv stands
    error,          \* the exception that left process_csv ("" while none has)
    driver,         \* self.driver: "None", "live" or "quit"
    storage,        \* local/session storage of the live session: "clean" or "dirty"
    url_counter,    \* url_counter
    rotations,      \* how often lines 420-421 ran
    rows_read,      \* rows of the input file read so far (the sku of the row)
    entries,        \* entries of the rows' URL lists taken so far in the run
    url,            \* url
    prices, site_names, store_counts, skroutz_prices,   \* the row's four lists
    quotes,         \* the tuples search returned for the row, in URL order
    ret,            \* the tuple search returned, before lines 425-432 read it
    soup,           \* soup of search: the page scrape_via_requests returned
    attempts,       \* attempts of scrape_skroutz
    requests,       \* how often the running scrape_skroutz called curlr.get
    response,       \* the last response of the aggregator
    slept,          \* seconds of the last attempt's time.sleep
    results,        \* results
    return_file,    \* the lines appended to return_file
    output_csv      \* the rows written to output_csv, None while not written

vars == << pc, error, driver, storage, url_counter, rotations, rows_read,
           entries, url, prices, site_names, store_counts, skroutz_prices, quotes,
           ret, soup, attempts, requests, response, slept, results, return_file,
           output_csv >>

session_vars == << driver, storage, url_counter, rotations >>
row_vars == << prices, site_names, store_counts, skroutz_prices, quotes >>
skroutz_vars == << attempts, requests, response, slept >>
sink_vars == << results, return_file, output_csv >>

NoQuote == Quote(<<>>, "", 0, <<>>)

Init ==
    /\ pc = "start"
    /\ error = ""
    /\ driver = "None"
    /\ storage = "clean"
    /\ url_counter = 0
    /\ rotations = 0
    /\ rows_read = 0
    /\ entries = 0
    /\ url = ""
    /\ prices = <<>>
    /\ site_names = <<>>
    /\ store_counts = <<>>
    /\ skroutz_prices = <<>>
    /\ quotes = <<>>
    /\ ret = NoQuote
    /\ soup = None
    /\ attempts = 0
    /\ requests = 0
    /\ response = NoResponse
    /\ slept = 0
    /\ results = <<>>
    /\ return_file = <<>>
    /\ output_csv = None

(***************************************************************************)
(* process_csv, lines 399-401: create_webdriver either returns a session   *)
(* or raises (created = FALSE), which leaves process_csv.                  *)
(***************************************************************************)
Start(created) ==
    /\ pc = "start"
    /\ IF created
       THEN /\ driver' = "live"
            /\ storage' = "clean"
            /\ pc' = "rows"
            /\ error' = error
       ELSE /\ pc' = "halted"
            /\ error' = "create_webdriver"
            /\ UNCHANGED << driver, storage >>
    /\ UNCHANGED << url_counter, rotations, rows_read, entries, url, row_vars,
                    ret, soup, skroutz_vars, sink_vars >>

(***************************************************************************)
(* Lines 405-411: the reader yields one more row; its four lists start     *)
(* empty.  The row's sku is its ordinal.                                   *)
(***************************************************************************)
ReadRow(maxRows) ==
    /\ pc = "rows"
    /\ rows_read < maxRows
    /\ rows_read' = rows_read + 1
    /\ prices' = <<>>
    /\ site_names' = <<>>
    /\ store_counts' = <<>>
    /\ skroutz_prices' = <<>>
    /\ quotes' = <<>>
    /\ pc' = "urls"
    /\ UNCHANGED << error, session_vars, entries, url, ret, soup, skroutz_vars,
                    sink_vars >>

(***************************************************************************)
(* Line 403: open() of the input file raises (no such file, no UTF-16      *)
(* byte order mark); nothing catches, and the session of line 400 stays.   *)
(***************************************************************************)
OpenRaise ==
    /\ pc = "rows"
    /\ rows_read = 0
    /\ pc' = "halted"
    /\ error' = "open"
    /\ UNCHANGED << session_vars, rows_read, entries, url, row_vars, ret, soup,
                    skroutz_vars, sink_vars >>

(***************************************************************************)
(* Lines 405-407: the reader yields a row without a first or a second      *)
(* field (a blank line, a line of one field): row[0] or row[1] raises      *)
(* IndexError, which leaves process_csv.                                   *)
(***************************************************************************)
ReadRowRaise(maxRows) ==
    /\ pc = "rows"
    /\ rows_read < maxRows
    /\ pc' = "halted"
    /\ error' = "IndexError"
    /\ UNCHANGED << session_vars, rows_read, entries, url, row_vars, ret, soup,
                    skroutz_vars, sink_vars >>

(***************************************************************************)
(* Lines 413-415: the next entry u of the row has no 'http' in it.         *)
(***************************************************************************)
SkipEntry(u, maxUrls) ==
    /\ pc = "urls"
    /\ entries < maxUrls
    /\ ~Contains(u, "http")
    /\ entries' = entries + 1
    /\ url' = u
    /\ UNCHANGED << pc, error, session_vars, rows_read, row_vars, ret, soup,
                    skroutz_vars, sink_vars >>

(***************************************************************************)
(* Lines 413-421: the next entry u of the row is a URL; count it and       *)
(* rotate the session when due.  created tells whether the create_webdriver*)
(* of a rotation returns.                                                  *)
(***************************************************************************)
counts_url(u) == Contains(u, "skroutz")

rotation_due(counter) == counter % 10 = 0

\* the rotation going on to search after create_webdriver raised
TakeUrl_carries_on(u, created, maxUrls) ==
    /\ pc = "urls"
    /\ entries < maxUrls
    /\ Contains(u, "http")
    /\ entries' = entries + 1
    /\ url' = u
    /\ url_counter' = IF counts_url(u) THEN url_counter + 1 ELSE url_counter
    /\ IF counts_url(u) /\ rotation_due(url_counter')
       THEN /\ rotations' = rotations + 1
            /\ driver' = IF created THEN "live" ELSE "quit"
            /\ storage' = IF created THEN "clean" ELSE storage
            /\ pc' = "search"
            /\ error' = error
       ELSE /\ created
            /\ pc' = "search"
            /\ UNCHANGED << rotations, driver, storage, error >>
    /\ UNCHANGED << rows_read, row_vars, ret, soup, skroutz_vars, sink_vars >>

TakeUrl(u, created, maxUrls) ==
    /\ pc = "urls"
    /\ entries < maxUrls
    /\ Contains(u, "http")
    /\ entries' = entries + 1
    /\ url' = u
    /\ url_counter' = IF counts_url(u) THEN url_counter + 1 ELSE url_counter
    /\ IF counts_url(u) /\ rotation_due(url_counter')
       THEN /\ rotations' = rotations + 1
            /\ IF created
               THEN /\ driver' = "live"
                    /\ storage' = "clean"
                    /\ pc' = "search"
                    /\ error' = error
               ELSE /\ driver' = "quit"
                    /\ storage' = storage
                    /\ pc' = "halted"
                    /\ error' = "create_webdriver"
       ELSE /\ created
            /\ pc' = "search"
            /\ UNCHANGED << rotations, driver, storage, error >>
    /\ UNCHANGED << rows_read, row_vars, ret, soup, skroutz_vars, sink_vars >>

(***************************************************************************)
(* search, lines 357-358: delete_all_cookies raises, and nothing between   *)
(* it and the caller of process_csv catches.                               *)
(***************************************************************************)
deletes_cookies(u) == Contains(u, "skroutz") \/ Contains(u, "e-fresh")

SearchCookiesRaise ==
    /\ pc = "search"
    /\ deletes_cookies(url)
    /\ pc' = "halted"
    /\ error' = "delete_all_cookies"
    /\ UNCHANGED << driver, storage, url_counter, rotations, rows_read, entries, url,
                    row_vars, ret, soup, skroutz_vars, sink_vars >>

(***************************************************************************)
(* search, lines 357-361, and scrape_skroutz up to its loop (225-250).     *)
(***************************************************************************)
SearchSkroutz ==
    /\ pc = "search"
    /\ Contains(url, "skroutz.gr")
    /\ IF Contains(url, "/s/")
       THEN /\ pc' = "skroutz"
            /\ attempts' = 0
            /\ requests' = 0
            /\ response' = NoResponse
            /\ slept' = 0
            /\ ret' = ret
       ELSE /\ pc' = "append"
            /\ ret' = skroutz_invalid_url
            /\ UNCHANGED skroutz_vars
    /\ UNCHANGED << error, driver, storage, url_counter, rotations, rows_read,
                    entries, url, row_vars, soup, sink_vars >>

(***************************************************************************)
(* scrape_skroutz, lines 251-314: one pass of the loop on response r.      *)
(***************************************************************************)
\* the loop test off by one
loop_continues_inclusive(n) == n <= 3

loop_continues(n) == n < 3

SkroutzAttempt(r) ==
    /\ pc = "skroutz"
    /\ loop_continues(attempts)
    /\ requests' = requests + 1
    /\ response' = r
    /\ IF Succeeds(r)
       THEN /\ ret' = skroutz_success(r.shop_count, r.cards)
            /\ pc' = "append"
            /\ slept' = 0
            /\ attempts' = attempts
       ELSE /\ attempts' = attempts + 1
            /\ slept' = attempt_sleep(r)
            /\ UNCHANGED << pc, ret >>
    /\ UNCHANGED << error, session_vars, rows_read, entries, url, row_vars, soup,
                    sink_vars >>

(***************************************************************************)
(* scrape_skroutz, line 316: the loop ended without a return.              *)
(***************************************************************************)
SkroutzExhausted ==
    /\ pc = "skroutz"
    /\ ~loop_continues(attempts)
    /\ ret' = skroutz_exhausted
    /\ pc' = "append"
    /\ UNCHANGED << error, session_vars, rows_read, entries, url, row_vars, soup,
                    skroutz_vars, sink_vars >>

(***************************************************************************)
(* search, lines 357-363, and scrape_efresh.                               *)
(***************************************************************************)
SearchEfresh(render) ==
    /\ pc = "search"
    /\ ~Contains(url, "skroutz.gr")
    /\ Contains(url, "e-fresh.gr")
    /\ ret' = scrape_efresh(render)
    /\ storage' \in efresh_storage(render, storage)
    /\ pc' = "append"
    /\ UNCHANGED << error, driver, url_counter, rotations, rows_read, entries, url,
                    row_vars, soup, skroutz_vars, sink_vars >>

(***************************************************************************)
(* search, lines 357-394: the stateless fetch and the static adapters.     *)
(***************************************************************************)
SearchStatic(fetched) ==
    /\ pc = "search"
    /\ ~Contains(url, "skroutz.gr")
    /\ ~Contains(url, "e-fresh.gr")
    /\ soup' = fetched
    /\ ret' = search_static(url, fetched)
    /\ pc' = "append"
    /\ UNCHANGED << error, driver, storage, url_counter, rotations, rows_read,
                    entries, url, row_vars, skroutz_vars, sink_vars >>

(***************************************************************************)
(* process_csv, lines 423-432: the returned tuple joins the row's lists.   *)
(***************************************************************************)
\* lines 425-428 without the 'if price_str' test: an absent price counts 0
appended_prices_keeps_absent(ps, q) ==
    LET price_value == clean_price(q.price)
    IN  Append(ps, IF price_value # None THEN price_value ELSE FloatZero)

appended_prices(ps, q) ==
    IF q.price # <<>>
    THEN LET price_value == clean_price(q.price)
         IN  IF price_value # None THEN Append(ps, price_value) ELSE ps
    ELSE ps

appended_skroutz(sps, q) ==
    LET skroutz_value == clean_price(q.skroutz_price)
    IN  Append(sps, IF skroutz_value # None THEN skroutz_value ELSE FloatZero)

AppendQuote ==
    /\ pc = "append"
    /\ prices' = appended_prices(prices, ret)
    /\ skroutz_prices' = appended_skroutz(skroutz_prices, ret)
    /\ site_names' = Append(site_names, ret.site)
    /\ store_counts' = Append(store_counts, ret.store_count)
    /\ quotes' = Append(quotes, ret)
    /\ ret' = NoQuote
    /\ soup' = None
    /\ attempts' = 0
    /\ requests' = 0
    /\ response' = NoResponse
    /\ slept' = 0
    /\ pc' = "urls"
    /\ UNCHANGED << error, session_vars, rows_read, entries, url, sink_vars >>

(***************************************************************************)
(* process_csv, lines 434-443: the row's URL list is through.              *)
(***************************************************************************)
final_index(ps) == PyIndex(ps, PyMin(ps))

\* line 438 without its 'else ""'
max_cell_int_zero(xs) == IntCell(PyMaxInt(xs))

max_cell_int(xs) == IF PyMaxInt(xs) > 0 THEN IntCell(PyMaxInt(xs)) ELSE EmptyCell

max_cell_float(xs) ==
    IF FloatLt(FloatZero, PyMaxFloat(xs)) THEN PyMaxFloat(xs) ELSE EmptyCell

row_result(sku, ps, sites, counts, sps) ==
    [sku |-> sku, site |-> sites[final_index(ps)], price |-> PyMin(ps),
     store_count |-> max_cell_int(counts), skroutz_price |-> max_cell_float(sps)]

\* line 443 naming the site of the row's first URL
row_line_first_site(sku, ps, sites, counts, sps) ==
    [sku |-> sku, price |-> PyMin(ps), site |-> sites[1],
     store_counts |-> counts, skroutz_prices |-> sps]

row_line(sku, ps, sites, counts, sps) ==
    [sku |-> sku, price |-> PyMin(ps), site |-> sites[final_index(ps)],
     store_counts |-> counts, skroutz_prices |-> sps]

\* line 434 asking for more than one price
row_resolves_needs_two(ps) == Len(ps) > 1

row_resolves(ps) == ps # <<>>

\* the result table written anew at the end of every row
EndRow_writes_table ==
    /\ pc = "urls"
    /\ IF row_resolves(prices)
       THEN /\ results' = Append(results,
                   row_result(rows_read, prices, site_names, store_counts, skroutz_prices))
            /\ return_file' = Append(return_file,
                   row_line(rows_read, prices, site_names, store_counts, skroutz_prices))
       ELSE UNCHANGED << results, return_file >>
    /\ output_csv' = [rows |-> results']
    /\ pc' = "rows"
    /\ UNCHANGED << error, session_vars, rows_read, entries, url, row_vars, ret,
                    soup, skroutz_vars >>

EndRow ==
    /\ pc = "urls"
    /\ IF row_resolves(prices)
       THEN /\ results' = Append(results,
                   row_result(rows_read, prices, site_names, store_counts, skroutz_prices))
            /\ return_file' = Append(return_file,
                   row_line(rows_read, prices, site_names, store_counts, skroutz_prices))
       ELSE UNCHANGED << results, return_file >>
    /\ pc' = "rows"
    /\ UNCHANGED << error, session_vars, rows_read, entries, url, row_vars, ret,
                    soup, skroutz_vars, output_csv >>

(***************************************************************************)
(* process_csv, lines 434-442: the row has a price and is appended to      *)
(* results (line 440), then open(self.return_file, 'a') raises (no such    *)
(* directory, no permission) and leaves process_csv.                       *)
(***************************************************************************)
EndRowRaise ==
    /\ pc = "urls"
    /\ row_resolves(prices)
    /\ results' = Append(results,
           row_result(rows_read, prices, site_names, store_counts, skroutz_prices))
    /\ pc' = "halted"
    /\ error' = "return_file"
    /\ UNCHANGED << session_vars, rows_read, entries, url, row_vars, ret, soup,
                    skroutz_vars, return_file, output_csv >>

(***************************************************************************)
(* process_csv, lines 445-450: the reader is through.                      *)
(***************************************************************************)
EndInput ==
    /\ pc = "rows"
    /\ driver' = "quit"
    /\ output_csv' = [rows |-> results]
    /\ pc' = "done"
    /\ UNCHANGED << error, storage, url_counter, rotations, rows_read, entries,
                    url, row_vars, ret, soup, skroutz_vars, results, return_file >>

(***************************************************************************)
(* process_csv, lines 445-447: the session is quit, then                   *)
(* open(self.output_csv, 'w') raises and leaves process_csv.               *)
(***************************************************************************)
EndInputRaise ==
    /\ pc = "rows"
    /\ driver' = "quit"
    /\ pc' = "halted"
    /\ error' = "output_csv"
    /\ UNCHANGED << storage, url_counter, rotations, rows_read, entries, url,
                    row_vars, ret, soup, skroutz_vars, sink_vars >>

(***************************************************************************)
(* The inputs of the exploration.                                          *)
(***************************************************************************)
UrlPool ==
    { "https://glutenfreeyourself.gr/p/1", "https://www.skroutz.gr/s/123/p.html",
      "https://www.e-fresh.gr/p/4", "https://example.com/p/5", "n/a" }

\* "12,50€" and "1.234,5"
PageTexts == { <<"1", "2", ",", "5", "0", "€">>,
               <<"1", ".", "2", "3", "4", ",", "5">> }

SoupPool ==
    {None, Page(FALSE, FALSE, <<>>), Page(TRUE, TRUE, <<>>)}
        \cup {Page(TRUE, FALSE, t) : t \in PageTexts}

RenderPool ==
    {Render("raise", <<>>), Render("404", <<>>),
     Render("page", <<"1", "2", ",", "5", "0", "€">>)}

FailurePool ==
    {Raised, Http(403, None), Http(429, None), Http(429, Str(<<"7">>)),
     Http(429, Str(<<"s", "o", "o", "n">>)), Http(500, None), Malformed}

\* the failures met in a run of process_csv
RunFailurePool == {Http(403, None), Http(500, None)}

\* two payloads: the end-to-end scenario's (reference 11.0 of three shops)
\* and the own shop alone
ResponsePool ==
    RunFailurePool \cup
    { Payload(3, << Card(1, Float(11, 0)), Card(our_shop_id, Float(12, 0)),
                    Card(2, Float(15, 0)) >>),
      Payload(1, << Card(our_shop_id, Float(10, 0)) >>) }

Next ==
    \/ \E created \in BOOLEAN : Start(created)
    \/ OpenRaise
    \/ ReadRow(MaxRows)
    \/ ReadRowRaise(MaxRows)
    \/ \E u \in UrlPool : SkipEntry(u, MaxUrls)
    \/ \E u \in UrlPool, created \in BOOLEAN : TakeUrl(u, created, MaxUrls)
    \/ SearchCookiesRaise
    \/ SearchSkroutz
    \/ \E r \in ResponsePool : SkroutzAttempt(r)
    \/ SkroutzExhausted
    \/ \E render \in RenderPool : SearchEfresh(render)
    \/ \E fetched \in SoupPool : SearchStatic(fetched)
    \/ AppendQuote
    \/ EndRow
    \/ EndRowRaise
    \/ EndInput
    \/ EndInputRaise

Spec == Init /\ [][Next]_vars

(***************************************************************************)
(* The aggregator client alone: a run whose only URLs are skroutz.gr URLs, *)
(* against every response of the failure pool and every payload of up to   *)
(* MaxCards cards.                                                         *)
(***************************************************************************)
SkroutzUrlPool == {"https://www.skroutz.gr/s/123/p.html", "https://www.skroutz.gr/c/55"}

ShopIds == {our_shop_id, 1, 2}

CardPrices == {Float(10, 0), Float(125, 1), Float(15, 0)}

CardPool == {Card(i, p) : i \in ShopIds, p \in CardPrices}

CardLists == UNION {[1..n -> CardPool] : n \in 0..MaxCards}

ShopCounts == {0, 3}

AllResponses ==
    FailurePool \cup {Payload(n, cards) : n \in ShopCounts, cards \in CardLists}

NextSk ==
    \/ Start(TRUE)
    \/ ReadRow(1)
    \/ \E u \in SkroutzUrlPool : TakeUrl(u, TRUE, 1)
    \/ SearchSkroutz
    \/ pc = "skroutz" /\ \E r \in AllResponses : SkroutzAttempt(r)
    \/ SkroutzExhausted
    \/ AppendQuote
    \/ EndRow
    \/ EndInput

SpecSk == Init /\ [][NextSk]_vars

(***************************************************************************)
(* The session-rotation scenario: one row of up to MaxRotUrls URLs, all of *)
(* them the same URL of a site that uses the rendering session; the        *)
(* aggregator answers 500 and e-fresh shows its 404 page.                  *)
(***************************************************************************)
RotUrlPool == {"https://www.skroutz.gr/s/123/p.html", "https://www.e-fresh.gr/p/4"}

NextRot ==
    \/ \E created \in BOOLEAN : Start(created)
    \/ ReadRow(1)
    \/ \E u \in RotUrlPool, created \in BOOLEAN :
          (entries = 0 \/ u = url) /\ TakeUrl(u, created, MaxRotUrls)
    \/ SearchSkroutz
    \/ SkroutzAttempt(Http(500, None))
    \/ SkroutzExhausted
    \/ SearchEfresh(Render("404", <<>>))
    \/ AppendQuote
    \/ EndRow
    \/ EndInput

SpecRot == Init /\ [][NextRot]_vars

(***************************************************************************)
(* The price-text path alone: one row with one sklavenitis.gr URL, whose   *)
(* page either lacks the price element or holds, as its text, any text of  *)
(* up to MaxTextLen characters of TextChars.  scrape_sklavenitis passes    *)
(* the text to extract_number and process_csv passes the result to         *)
(* clean_price.                                                            *)
(***************************************************************************)
TextChars == {"0", "1", ",", ".", "€", " "}

\* get_text(strip=True) leaves no blank at either end of the text
Texts ==
    {t \in UNION {[1..n -> TextChars] : n \in 0..MaxTextLen} :
        t = <<>> \/ (t[1] # " " /\ t[Len(t)] # " ")}

TextSoups == {Page(FALSE, FALSE, <<>>)} \cup {Page(TRUE, FALSE, t) : t \in Texts}

NextText ==
    \/ Start(TRUE)
    \/ ReadRow(1)
    \/ TakeUrl("https://www.sklavenitis.gr/p/2", TRUE, 1)
    \/ pc = "search" /\ \E fetched \in TextSoups : SearchStatic(fetched)
    \/ AppendQuote
    \/ EndRow
    \/ EndInput

SpecText == Init /\ [][NextText]_vars

(***************************************************************************)
(* The properties.  They read the row as the sequence quotes of the tuples *)
(* search returned, independently of the four lists process_csv keeps.     *)
(***************************************************************************)
Last(xs) == xs[Len(xs)]

\* the normalised price of a quote, None when its text is absent or unparseable
NormalizedPrice(q) == IF q.price = <<>> THEN None ELSE clean_price(q.price)

\* the places of the row's quotes that have a normalised price
Priced(qs) == {i \in 1..Len(qs) : NormalizedPrice(qs[i]) # None}

\* the places achieving the smallest normalised price
Cheapest(qs) ==
    {i \in Priced(qs) :
        \A j \in Priced(qs) : ~FloatLt(NormalizedPrice(qs[j]), NormalizedPrice(qs[i]))}

\* the first place, in URL order, achieving the smallest normalised price
FirstCheapest(qs) == CHOOSE i \in Cheapest(qs) : \A j \in Cheapest(qs) : i <= j

\* the row's URL list is through and lines 434-443 have run
RowClosed ==
    /\ \/ pc \in {"rows", "done"}
       \/ pc = "halted" /\ error \in {"open", "IndexError", "output_csv"}
    /\ rows_read >= 1

\* the row that was closed last reached Resolved
Resolved == RowClosed /\ Priced(quotes) # {}

\* the row is being collected (or the run was left while it was)
RowOpen ==
    \/ pc \in {"urls", "search", "skroutz", "append"}
    \/ pc = "halted" /\ error \in {"create_webdriver", "delete_all_cookies"}

(***************************************************************************)
(* C1: for every identifier that reaches Resolved, the winning source is   *)
(* the source of the first quote, in URL order, whose normalised price is  *)
(* the minimum, also when earlier URLs gave absent or unparseable prices.  *)
(* The code takes the place of the minimum in prices, which holds only the *)
(* parseable prices, and reads site_names, which holds every quote's site, *)
(* at that place.                                                          *)
(***************************************************************************)
C1_WinnerIsFirstCheapest ==
    Resolved => Last(results).site = quotes[FirstCheapest(quotes)].site

(***************************************************************************)
(* C2: the end-to-end scenario: the first identifier's URLs give, in order,*)
(* "12,50€" from a static site, an out-of-stock static site and an         *)
(* aggregator reference of 11.0; the result is to have minimum_price 11.0, *)
(* the aggregator as winning source and max_aggregator_price 11.0.         *)
(***************************************************************************)
EndToEndScenario ==
    /\ RowClosed
    /\ rows_read = 1
    /\ Len(quotes) = 3
    /\ quotes[1].site \in {"glutenfreeyourself.gr", "sklavenitis.gr"}
    /\ NormalizedPrice(quotes[1]) = Float(125, 1)
    /\ quotes[2] = Quote(<<>>, "eksantlimeno-glutenfreeyourself.gr", 0, <<>>)
    /\ quotes[3].site = "skroutz"
    /\ NormalizedPrice(quotes[3]) = Float(11, 0)

C2_EndToEnd ==
    EndToEndScenario =>
        /\ Last(results).price = Float(11, 0)
        /\ Last(results).site = "skroutz"
        /\ Last(results).skroutz_price = Float(11, 0)

(***************************************************************************)
(* C3: for every identifier that reaches Resolved, minimum_price is the    *)
(* minimum of the normalised prices of all the row's quotes: every quote   *)
(* with a parseable price takes part, a quote with an absent price text    *)
(* does not.                                                               *)
(***************************************************************************)
C3_MinimumOverAllQuotes ==
    /\ RowClosed => Len(prices) = Cardinality(Priced(quotes))
    /\ Resolved =>
          /\ \E i \in Priced(quotes) :
                /\ quotes[i].price # <<>>
                /\ Last(results).price = NormalizedPrice(quotes[i])
          /\ \A j \in Priced(quotes) :
                ~FloatLt(NormalizedPrice(quotes[j]), Last(results).price)

\* a resolved row of three quotes: one absent, two parseable, the later cheaper
C3_Witness ==
    /\ Resolved
    /\ Len(quotes) = 3
    /\ quotes[1].price = <<>>
    /\ Priced(quotes) = {2, 3}
    /\ FloatLt(NormalizedPrice(quotes[3]), NormalizedPrice(quotes[2]))
    /\ Last(results).price = NormalizedPrice(quotes[3])

(***************************************************************************)
(* C4: an extraction failure of any site adapter gives a quote with an     *)
(* absent price.  The failure tuples are known by their site tag.          *)
(***************************************************************************)
FailureTags ==
    {StaticAdapters[i].fail : i \in 1..Len(StaticAdapters)}
        \cup {"Error", "site-NA", "Invalid URL", "classnotfound-skroutz.gr",
              "classnotfound-e-fresh.gr"}

C4_FailureHasNoPrice ==
    /\ \A i \in 1..Len(quotes) :
          quotes[i].site \in FailureTags => quotes[i].price = <<>>
    /\ Resolved => quotes[FirstCheapest(quotes)].site \notin FailureTags

(***************************************************************************)
(* C5: whatever the aggregator answers, scrape_skroutz makes at most 3     *)
(* requests, returns, and returns an absent price when no attempt          *)
(* succeeded; three 403 answers end in an absent price after 3 requests.   *)
(***************************************************************************)
SkroutzReturned == pc = "append" /\ Contains(url, "skroutz.gr")

C5_Bounded ==
    /\ requests <= 3
    /\ pc = "skroutz" => (requests = attempts /\ attempts <= 3)
    /\ (SkroutzReturned /\ ~Succeeds(response)) => ret.price = <<>>

\* a pass of the loop that does not return counts one more attempt: the loop
\* is left after at most 3 passes
C5_Progress ==
    (pc = "skroutz" /\ pc' = "skroutz") =>
        (attempts' = attempts + 1 /\ requests' = requests + 1)

C5_BoundedRetry == []C5_Bounded /\ [][C5_Progress]_vars

\* three 403 answers: 3 requests, the loop is left, the price is absent
C5_Witness ==
    /\ SkroutzReturned
    /\ requests = 3
    /\ attempts = 3
    /\ response = Http(403, None)
    /\ ret.price = <<>>

(***************************************************************************)
(* C6: on a successful response the reference price is the second-lowest   *)
(* price when the lowest-priced shop (the first of the ascending stable    *)
(* order) is the own shop, absent when that shop is alone; otherwise the   *)
(* lowest price, absent without shops.  Stated on the payload's card list  *)
(* without sorting it.                                                     *)
(***************************************************************************)
\* the places of the cards no other card undercuts
Lowest(cards, among) ==
    {i \in among : \A j \in among : ~FloatLt(cards[j].raw_price, cards[i].raw_price)}

\* the first such place: where a stable ascending sort takes its first element
FirstLowest(cards, among) ==
    CHOOSE i \in Lowest(cards, among) : \A j \in Lowest(cards, among) : i <= j

ExpectedReference(cards) ==
    LET all   == 1..Len(cards)
        first == FirstLowest(cards, all)
        rest  == all \ {first}
    IN  IF all = {} THEN None
        ELSE IF cards[first].shop_id = our_shop_id
             THEN IF rest = {} THEN None
                  ELSE cards[FirstLowest(cards, rest)].raw_price
             ELSE cards[first].raw_price

C6_Examples ==
    /\ reference_price(<< Card(1, Float(10, 0)), Card(our_shop_id, Float(12, 0)),
                          Card(2, Float(15, 0)) >>) = Float(10, 0)
    /\ reference_price(<< Card(our_shop_id, Float(10, 0)), Card(2, Float(15, 0)) >>)
          = Float(15, 0)
    /\ reference_price(<< Card(our_shop_id, Float(10, 0)) >>) = None

C6_ReferencePrice ==
    /\ (SkroutzReturned /\ Succeeds(response)) =>
          /\ NormalizedPrice(ret) = ExpectedReference(response.cards)
          /\ ret.skroutz_price = ret.price
          /\ ret.store_count = response.shop_count
    /\ C6_Examples

\* the own shop is the cheapest of two shops listed after its competitor
C6_Witness ==
    /\ SkroutzReturned
    /\ response.cards = << Card(2, Float(15, 0)), Card(our_shop_id, Float(10, 0)) >>
    /\ ret.price = <<"1", "5", ".", "0">>

(***************************************************************************)
(* C7: in a run of 25 URLs that use the rendering session the session is   *)
(* rotated exactly twice.  The code counts the URLs that contain 'skroutz' *)
(* only: e-fresh URLs, the ones that navigate the session, never rotate it.*)
(***************************************************************************)
C7_TwoRotationsIn25 == (pc = "urls" /\ entries = 25) => rotations = 2

(***************************************************************************)
(* C8: no failure met while a URL's quote is obtained leaves process_csv:  *)
(* the only exception that ends a run is a failed session creation.        *)
(***************************************************************************)
C8_QuoteFailuresIsolated == pc = "halted" => error = "create_webdriver"

(***************************************************************************)
(* C9: for every identifier that reaches Resolved, max_store_count is the  *)
(* largest store_count of all the row's quotes and max_aggregator_price    *)
(* the largest parseable aggregator price of all the row's quotes, quotes  *)
(* without a price of their own included; each is the empty cell, not 0,   *)
(* when no quote gave a positive value.                                    *)
(***************************************************************************)
StoreCounts(qs) == {qs[i].store_count : i \in 1..Len(qs)}

AggregatorPrices(qs) ==
    {clean_price(qs[i].skroutz_price) : i \in 1..Len(qs)} \ {None}

C9_MaximaOverAllQuotes ==
    Resolved =>
        LET r == Last(results)
            positive == {n \in StoreCounts(quotes) : n > 0}
            priced   == {v \in AggregatorPrices(quotes) : FloatLt(FloatZero, v)}
        IN  /\ IF positive = {} THEN r.store_count = EmptyCell
               ELSE /\ r.store_count \in {IntCell(n) : n \in positive}
                    /\ \A n \in positive : IntCell(n).int <= r.store_count.int
            /\ IF priced = {} THEN r.skroutz_price = EmptyCell
               ELSE /\ r.skroutz_price \in priced
                    /\ \A v \in priced : ~FloatLt(r.skroutz_price, v)

\* the store count comes from a quote without a price: the own shop alone
C9_Witness ==
    /\ Resolved
    /\ Len(quotes) = 2
    /\ quotes[1] = Quote(<<>>, "skroutz", 1, <<>>)
    /\ Last(results).store_count = IntCell(1)
    /\ Last(results).skroutz_price = EmptyCell

(***************************************************************************)
(* C10: an identifier none of whose quotes has a parseable price gets no   *)
(* row in the final table and no line in the append log; an identifier     *)
(* with a parseable price gets exactly one of each.  Rows and lines are    *)
(* added only when a row's URL list is through.  The one state in which    *)
(* results and the log differ is the end of a run that the log's open()    *)
(* ended: the row is in results, the log has refused its line, and the     *)
(* table is never written.                                                 *)
(***************************************************************************)
\* open(self.return_file, 'a') raised and left process_csv
LogRefused == pc = "halted" /\ error = "return_file"

Skus(xs) == [i \in 1..Len(xs) |-> xs[i].sku]

Increasing(ns) == \A i, j \in 1..Len(ns) : i < j => ns[i] < ns[j]

C10_Rows ==
    /\ ~LogRefused => Skus(return_file) = Skus(results)
    /\ LogRefused =>
          (Skus(results) = Append(Skus(return_file), rows_read) /\ Priced(quotes) # {})
    /\ Increasing(Skus(results))
    /\ \A i \in 1..Len(results) : results[i].sku \in 1..rows_read
    /\ RowOpen => \A i \in 1..Len(results) : results[i].sku # rows_read
    /\ RowClosed =>
          ((\E i \in 1..Len(results) : results[i].sku = rows_read)
              <=> Priced(quotes) # {})
    /\ pc = "done" => output_csv = [rows |-> results]

C10_OnlyAtRowEnd ==
    (results' # results \/ return_file' # return_file) =>
        (pc = "urls" /\ (pc' = "rows" \/ LogRefused'))
\* the step that leaves the URL list of a row
ClosesRow == pc = "urls" /\ pc' = "rows"

\* row i of the table and line i of the log tell the same identifier, price
\* and site
RowMatchesLine(row, line) ==
    row.sku = line.sku /\ row.price = line.price /\ row.site = line.site

C11_Table ==
    /\ output_csv # None => pc = "done"
    /\ pc = "done" =>
          /\ output_csv # None
          /\ Len(output_csv.rows) = Len(return_file)
          /\ \A i \in 1..Len(return_file) :
                RowMatchesLine(output_csv.rows[i], return_file[i])
          /\ Increasing(Skus(output_csv.rows))

C11_Step ==
    /\ (ClosesRow /\ Priced(quotes) # {}) =>
          /\ Len(return_file') = Len(return_file) + 1
          /\ SubSeq(return_file', 1, Len(return_file)) = return_file
          /\ Last(return_file').sku = rows_read
          /\ Last(return_file').price = NormalizedPrice(quotes[FirstCheapest(quotes)])
    /\ ~(ClosesRow /\ Priced(quotes) # {}) => return_file' = return_file
    /\ output_csv' # output_csv =>
          (pc = "rows" /\ pc' = "done" /\ output_csv = None)

\* C11: the line of a Resolved identifier is appended in the step that closes
\* its row, hence before any URL of the next identifier is fetched, and no
\* other step touches the log; the final table is written once, in the step
\* that follows the last identifier, and holds one row per Resolved identifier
\* in input order, row i telling the identifier, price and site of line i.
C11_SinkOrdering == []C11_Table /\ [][C11_Step]_vars

\* both identifiers resolved, the second by the second of its two URLs: two
\* lines, then the table of two rows
C11_Witness ==
    /\ pc = "done"
    /\ Len(return_file) = 2
    /\ Skus(output_csv.rows) = <<1, 2>>
    /\ Len(return_file[2].store_counts) = 2
    /\ return_file[2].site = "skroutz"

C12_Partial ==
    /\ pc # "done" => output_csv = None
    /\ \A i \in 1..Len(return_file) : return_file[i].sku \in 1..rows_read
    /\ RowOpen => \A i \in 1..Len(return_file) : return_file[i].sku # rows_read
    /\ RowClosed =>
          ((\E i \in 1..Len(return_file) : return_file[i].sku = rows_read)
              <=> Priced(quotes) # {})
    /\ LogRefused => \A i \in 1..Len(return_file) : return_file[i].sku # rows_read

C12_Durable ==
    /\ pc # "halted"
    /\ Len(return_file') >= Len(return_file)
    /\ SubSeq(return_file', 1, Len(return_file)) = return_file

\* C12: wherever a run stops short of the end of the input, by being killed
\* in any state or by an exception that leaves process_csv, the log holds the
\* lines of exactly the identifiers resolved so far (none for the identifier
\* in hand, none for the identifier whose line the log itself refused, none
\* ever taken back) and the final table has not been written;
\* the table is written in no state but the one after the last identifier,
\* and no step follows the exception.
C12_PartialRun == []C12_Partial /\ [][C12_Durable]_vars

\* the run was left in the second identifier, after the first had resolved
C12_Witness ==
    /\ pc = "halted"
    /\ error = "delete_all_cookies"
    /\ rows_read = 2
    /\ Skus(return_file) = <<1>>
    /\ output_csv = None

(***************************************************************************)
(* The tags of the quotes without a price.                                 *)
(***************************************************************************)
\* scrape_skroutz returned after three failed attempts
SkroutzGaveUp == SkroutzReturned /\ attempts = 3 /\ ~Succeeds(response)

\* C14: when scrape_skroutz has used up its attempts, the quote it returns
\* has no price and the tag "aggregator-unresolved".
C14_TaggedUnresolved ==
    SkroutzGaveUp => (ret.price = <<>> /\ ret.site = "aggregator-unresolved")

\* the tags the adapters give when an element of the page is not found
NotFoundTags ==
    {StaticAdapters[i].fail : i \in 1..Len(StaticAdapters)}
        \cup {"classnotfound-skroutz.gr", "classnotfound-e-fresh.gr"}

\* the URL goes to the stateless fetch and the static adapters
StaticUrl(u) == ~Contains(u, "skroutz.gr") /\ ~Contains(u, "e-fresh.gr")

\* the places of the static adapters whose domain the URL contains
Matching(u) == {i \in 1..Len(StaticAdapters) : Contains(u, StaticAdapters[i].pat)}

\* the fetch of the URL in hand failed in transport: the stateless fetch
\* returned no page, or the last request to the aggregator raised
TransportFailed ==
    \/ StaticUrl(url) /\ soup = None
    \/ SkroutzGaveUp /\ response.kind = "raise"

ElementNotFound ==
    StaticUrl(url) /\ Matching(url) # {} /\ soup # None /\ ~soup.found

SiteUnknown == StaticUrl(url) /\ Matching(url) = {}

\* C15: the tag of a quote without a price tells the cause apart: a transport
\* failure is never reported under an element-not-found tag nor under
\* "site-NA", a missing element is reported under an element-not-found tag,
\* and an element-not-found tag is never "site-NA" or the transport tag.
C15_TagsTellCause ==
    pc = "append" =>
        /\ TransportFailed => ret.site \notin NotFoundTags \cup {"site-NA"}
        /\ ElementNotFound => ret.site \in NotFoundTags
        /\ (SiteUnknown /\ ~TransportFailed) => ret.site = "site-NA"
        /\ NotFoundTags \cap {"site-NA", "Error"} = {}

\* C16: search takes the first adapter, in the order of its chain, whose
\* domain the URL contains, and a URL that contains none of the domains gets
\* the quote without a price tagged "site-NA", whether its fetch returned a
\* page or failed.
C16_UnknownIsSiteNA ==
    (pc = "append" /\ StaticUrl(url)) =>
        /\ Matching(url) = {} => ret = Quote(<<>>, "site-NA", 0, <<>>)
        /\ (Matching(url) # {} /\ soup # None) =>
              LET first == CHOOSE i \in Matching(url) : \A j \in Matching(url) : i <= j
              IN  ret.site \in {StaticAdapters[first].tag, StaticAdapters[first].oos,
                                StaticAdapters[first].fail}

\* one pass of the loop of scrape_skroutz that did not return
FailedAttempt == pc = "skroutz" /\ requests' = requests + 1 /\ ~Succeeds(response')

C17_Step ==
    FailedAttempt =>
        /\ attempts' = attempts + 1
        /\ response'.kind = "raise" => slept' = 5
        /\ (response'.kind = "http" /\ response'.status = 403) => slept' = 5
        /\ (response'.kind = "http" /\ response'.status = 429) =>
              /\ response'.retry_after = None => slept' = 5
              /\ (response'.retry_after # None
                    /\ IntParses(response'.retry_after.str)) =>
                    slept' = DigitsVal(response'.retry_after.str)
        /\ (response'.kind = "http" /\ response'.status \notin {200, 403, 429}) =>
              slept' = 0

\* C17: every pass of the loop that does not return adds exactly one to
\* attempts, and sleeps 5 seconds after a 403, the seconds of the Retry-After
\* header after a 429 (5 when the header is absent), not at all after any
\* other status but 200, and 5 seconds after a request that raised.
C17_Backoff == [][C17_Step]_vars

\* the second attempt met a 429 asking for 7 seconds
C17_Witness ==
    /\ pc = "skroutz"
    /\ attempts = 2
    /\ response = Http(429, Str(<<"7">>))
    /\ slept = 7

\* C18: when scrape_efresh has navigated the session to a page, local and
\* session storage are clear before the next URL is taken, also when the page
\* was the shop's "not found" page.
C18_StorageCleared ==
    (pc \in {"append", "urls", "rows", "done"} /\ driver # "None") => storage = "clean"

(***************************************************************************)
(* create_webdriver raising.                                               *)
(***************************************************************************)
\* a step in which create_webdriver was called and gave no session
CreationFailed == (pc = "start" \/ rotations' # rotations) /\ driver' # "live"

C20_Halted ==
    (pc = "halted" /\ error = "create_webdriver") =>
        (driver # "live" /\ output_csv = None /\ ret = NoQuote)

C20_Step ==
    /\ pc # "halted"
    /\ CreationFailed =>
          (pc' = "halted" /\ error' = "create_webdriver" /\ output_csv' = None)

\* C20: when create_webdriver raises, at the start of process_csv or in a
\* rotation, the exception leaves process_csv: the run halts in that step, no
\* step follows it (no URL is searched, no row closed), and the result table
\* is not written.
C20_SessionFatal == []C20_Halted /\ [][C20_Step]_vars

\* the rotation before the tenth URL quit the session and could not make
\* another
C20_Witness ==
    /\ pc = "halted"
    /\ error = "create_webdriver"
    /\ rotations = 1
    /\ entries = 10
    /\ driver = "quit"
    /\ output_csv = None

\* search or scrape_efresh is about to call the driver for the URL in hand
UsesDriver == pc = "search" /\ deletes_cookies(url)

\* process_csv has returned or an exception has left it
RunEnded == pc \in {"done", "halted"}

\* C21: self.driver is the one session of the run; it is live whenever
\* search or scrape_efresh calls it, and when the run has ended, by returning
\* or by an exception that leaves process_csv, no session is left live:
\* every session created has been quit.
C21_SessionLifecycle ==
    /\ driver \in {"None", "live", "quit"}
    /\ UsesDriver => driver = "live"
    /\ RunEnded => driver # "live"

(***************************************************************************)
(* The price text of a page, read character by character.                  *)
(***************************************************************************)
IsSeparator(c) == c \in {",", "."}

DigitsOf(t) == SelectSeq(t, IsDigit)

\* the place of the first separator of t, Len(t) + 1 when t has none
FirstSeparator(t) ==
    IF \E i \in 1..Len(t) : IsSeparator(t[i])
    THEN CHOOSE i \in 1..Len(t) :
            IsSeparator(t[i]) /\ \A j \in 1..(i - 1) : ~IsSeparator(t[j])
    ELSE Len(t) + 1

DigitsBefore(t) == DigitsOf(SubSeq(t, 1, FirstSeparator(t) - 1))

DigitsAfter(t) == DigitsOf(SubSeq(t, FirstSeparator(t) + 1, Len(t)))

\* digits, at least one, with at most one comma and at most one point
PriceText(t) ==
    /\ \A i \in 1..Len(t) : IsDigit(t[i]) \/ IsSeparator(t[i])
    /\ \E i \in 1..Len(t) : IsDigit(t[i])
    /\ CountChar(t, ",") <= 1
    /\ CountChar(t, ".") <= 1

\* the page of the static fetch is in hand and its adapter has returned
TextExtracted == pc = "append" /\ soup # None /\ soup.found /\ ~soup.oos

\* C13: for a price text of digits with at most one comma and at most one
\* point, in either order, clean_price of extract_number of the text is a
\* number, never None, and the number is the digits before the first
\* separator, then the decimal point, then exactly the digits after it.
C13_PriceTextParses ==
    (TextExtracted /\ PriceText(soup.text)) =>
        /\ ret.price = extract_number(soup.text)
        /\ clean_price(ret.price) # None
        /\ clean_price(ret.price) =
              Float(DigitsVal(DigitsBefore(soup.text) \o DigitsAfter(soup.text)),
                    Len(DigitsAfter(soup.text)))

\* "1.0,1" has been read as 1.01
C13_Witness ==
    /\ TextExtracted
    /\ soup.text = <<"1", ".", "0", ",", "1">>
    /\ clean_price(ret.price) = Float(101, 2)

\* C19: extract_number returns every digit of its input verbatim, in order,
\* and at most one separator, written ',' and standing where the first comma
\* or point of the input stood; so its output has at most one ',' and no '.',
\* and applying extract_number to its own output returns it unchanged.
C19_ExtractNumber ==
    TextExtracted =>
        /\ ret.price = DigitsBefore(soup.text)
                         \o (IF FirstSeparator(soup.text) <= Len(soup.text)
                             THEN <<",">> ELSE <<>>)
                         \o DigitsAfter(soup.text)
        /\ CountChar(ret.price, ",") <= 1
        /\ CountChar(ret.price, ".") = 0
        /\ extract_number(ret.price) = ret.price

\* "€1,0." has been read as "1,0"
C19_Witness ==
    /\ TextExtracted
    /\ soup.text = <<"€", "1", ",", "0", ".">>
    /\ ret.price = <<"1", ",", "0">>

=============================================================================
